---- MODULE Spec2Model ----
(***************************************************************************)
(* NFC-e emission pipeline of plugnfce-api: the intake use case            *)
(* (EmitNFce, CancelNFce), the nfce_requests / nfce_events tables behind   *)
(* nfceRepository, the nfce.emit queue, and the worker (handleMessage and  *)
(* the retry scheduler processPendingRetries).                             *)
(*                                                                         *)
(* Every store or broker call is one atomic step; a handler is the         *)
(* sequence of its calls, so that handlers of different goroutines and     *)
(* processes interleave between calls exactly as they can in the program.  *)
(***************************************************************************)
EXTENDS Integers, Sequences, FiniteSets, Bags, TLC

\* ------------------------------------------------------------------ bounds
NumKeys == 2          \* idempotency keys callers choose from
NumCallers == 2       \* concurrent intake calls (one EmitNFce call each)
NumWorkers == 2       \* worker processes (one consumer + one scheduler each)
MaxDeliveries == 2    \* deliveries that reach ProcessNFceEmission, in Spec
IntakeDeliveries == 2 \* the same, in SpecIntake
BudgetWorkers == 1    \* worker processes in SpecBudget
NumCompanies == 1     \* companies with an NFC-e counter
MaxCalls == 4         \* calls of GetNextNFCeNumber, in SpecSequence and SpecRollback
TwiceDeliveries == 3  \* deliveries that reach ProcessNFceEmission, in SpecTwice
FreeDigits == 1       \* digits of the access key's cNF that vary, in SpecKey

\* ------------------------------------------------------- program constants
MaxRetries == 5       \* worker.maxRetries

Keys == 1..NumKeys
Callers == 1..NumCallers
Workers == 1..NumWorkers
Companies == 1..NumCompanies

RequestStatusPending == "pending"
RequestStatusProcessing == "processing"
RequestStatusAuthorized == "authorized"
RequestStatusRejected == "rejected"
RequestStatusContingency == "contingency"
RequestStatusRetrying == "retrying"
RequestStatusCanceled == "canceled"

RequestStatus ==
  { RequestStatusPending, RequestStatusProcessing, RequestStatusAuthorized,
    RequestStatusRejected, RequestStatusContingency, RequestStatusRetrying,
    RequestStatusCanceled }

\* An unset string column is "" in Go; numbers stand for the strings here and 0
\* for the empty string (cStat "204" is 204, an absent cStat is 0).
Empty == 0
\* A nil *time.Time.
Nil == 0

VARIABLES
  rows,        \* nfce_requests: id -> row
  events,      \* nfce_events, in insertion order
  queue,       \* nfce.emit: bag of EmitMessage waiting for a delivery
  uuid,        \* number of uuid.New() results handed out so far
  sequence,    \* companies' NFC-e counter: last number get_next_nfce_number returned
  due,         \* ids whose stored next_retry_at is <= now
  aged,        \* ids created more than 48 hours ago
  call,        \* caller -> state of its EmitNFce call
  h,           \* worker -> state of its handleMessage call
  sched,       \* worker -> state of its processPendingRetries call
  deliveries,  \* number of deliveries that found their request, so far
  audit,       \* id -> bookkeeping of what happened to the request (not program state)
  redelivered, \* messages the broker holds with the redelivered flag: requeued by a Nack
  proc,        \* worker -> "running", "stopping" (w.shutdown closed, Stop waits), "exited"
  nfce_sequences,  \* committed rows of nfce_sequences: company -> ultimo_numero
  rowlock,     \* company -> the transaction holding the lock of its row, or None
  inserted,    \* company -> the transaction with an uncommitted INSERT for it, or None
  tx,          \* caller -> state of its GetNextNFCeNumber call
  calls,       \* number of GetNextNFCeNumber calls started so far
  returned,    \* company -> the numbers GetNextNFCeNumber returned, in order of return
  chave,       \* the first 43 digits of an access key
  cdv,         \* the check digit CalculateDV gave for chave
  cdvBefore,   \* the check digit of the key before one of its digits was replaced
  replaced     \* whether a digit of chave has been replaced

pipeline == << rows, events, queue, uuid, sequence, due, aged, call, h, sched,
               deliveries, audit, redelivered, proc >>

seqvars == << nfce_sequences, rowlock, inserted, tx, calls, returned >>

keyvars == << chave, cdv, cdvBefore, replaced >>

vars == << pipeline, seqvars, keyvars >>

Ids == DOMAIN rows

\* ------------------------------------------------------------ entity.NFCE
NewRow(key) ==
  [ key |-> key, uf |-> "", status |-> RequestStatusPending,
    chaveAcesso |-> Empty, protocolo |-> Empty, numero |-> Empty, serie |-> Empty,
    rejectionCode |-> Empty, cstat |-> Empty,
    retryCount |-> 0, nextRetryAt |-> Nil,
    inContingency |-> FALSE, contingencyType |-> "", urls |-> "" ]

MarkAsProcessing(n) == [n EXCEPT !.status = RequestStatusProcessing]

MarkAsAuthorized(n, chaveAcesso, protocolo, numero, serie) ==
  [n EXCEPT !.status = RequestStatusAuthorized,
            !.chaveAcesso = chaveAcesso, !.protocolo = protocolo,
            !.numero = numero, !.serie = serie]

MarkAsRejected(n, cstat) ==
  [n EXCEPT !.status = RequestStatusRejected, !.cstat = cstat,
            !.rejectionCode = cstat]

MarkAsContingency(n, contingencyType) ==
  [n EXCEPT !.status = RequestStatusContingency, !.inContingency = TRUE,
            !.contingencyType = contingencyType]

IncrementRetry(n) ==
  [n EXCEPT !.retryCount = @ + 1, !.status = RequestStatusRetrying]

\* CanRetry without the check of the retry count.
CanRetryUncounted(n, maxRetries, isAged) ==
  IF n.status = RequestStatusAuthorized \/ n.status = RequestStatusCanceled THEN FALSE
  ELSE IF isAged THEN FALSE
  ELSE TRUE

\* isAged: time.Since(n.CreatedAt) > 48h at the moment of the call.
CanRetry(n, maxRetries, isAged) ==
  IF n.status = RequestStatusAuthorized \/ n.status = RequestStatusCanceled THEN FALSE
  ELSE IF n.retryCount >= maxRetries THEN FALSE
  ELSE IF isAged THEN FALSE
  ELSE TRUE

\* ------------------------------------------------- nfceRepository (postgres)
\* The row stored under an idempotency key, as a set of ids (First() takes one).
GetByIdempotencyKey(key) == { i \in Ids : rows[i].key = key }

\* nfce_requests without the UNIQUE constraint: the INSERT always succeeds.
CreateFailsUnconstrained(key) == FALSE

\* INSERT fails on the UNIQUE constraint of nfce_requests.idempotency_key.
CreateFails(key) == \E i \in Ids : rows[i].key = key

\* db.Save(nfce): every column of the row with this primary key is overwritten
\* with the caller's copy, whatever the row holds now.
Update(id, n) == [rows EXCEPT ![id] = n]

\* Transaction: read the row, return without writing unless status = from.
UpdateStatus(id, from, to) ==
  IF rows[id].status # from THEN rows
  ELSE [rows EXCEPT ![id].status = to]

\* WHERE status = 'retrying' AND next_retry_at IS NOT NULL AND next_retry_at <= now.
\* LIMIT 10 is never reached: the model holds at most NumKeys rows.
GetPendingRetries ==
  { i \in Ids : /\ rows[i].status = RequestStatusRetrying
                /\ rows[i].nextRetryAt # Nil
                /\ i \in due }

\* ---------------------------------------------------------------- broker
EmitMessage(requestID, key) == [rid |-> requestID, key |-> key]

Publish(q, m) == q (+) SetToBag({m})
Take(q, m) == q (-) SetToBag({m})

\* ---------------------------------------------------------------- intake
Idle ==
  [pc |-> "idle", key |-> 0, uf |-> "", ok |-> FALSE, err |-> "", id |-> 0,
   status |-> ""]

UFs == {"SP", "RS"}

\* Since the request last entered retrying: the scheduler turns that wrote
\* processing over it, and the messages they published.
NewAudit == [claims |-> 0, republished |-> 0]

\* mapper.ToResponse: the response carries the entity's id and status.
ToResponse(c, id, n) ==
  [call EXCEPT ![c] = [@ EXCEPT !.pc = "done", !.ok = TRUE, !.id = id,
                                !.status = n.status]]

\* The call returns err instead of a response.
ErrorResponse(c, err) ==
  [call EXCEPT ![c] = [@ EXCEPT !.pc = "done", !.ok = FALSE, !.err = err]]

ErrRejected == "NFC-e already rejected"
ErrCreate == "failed to create NFC-e request"
ErrPublish == "failed to publish NFC-e message"

\* EmitNFce up to the idempotency check (the same in both versions of the use case).
EmitNFceLookup(c, key, uf) ==
  /\ call[c].pc = "idle"
  /\ LET existing == GetByIdempotencyKey(key)
         mine == [call[c] EXCEPT !.key = key, !.uf = uf]
         proceed == [call EXCEPT ![c] = [mine EXCEPT !.pc = "create"]] IN
       \/ /\ existing = {}
          /\ call' = proceed
       \/ \E i \in existing :
            IF rows[i].status \in {RequestStatusAuthorized, RequestStatusProcessing}
            THEN call' = [ToResponse(c, i, rows[i]) EXCEPT ![c].key = key, ![c].uf = uf]
            ELSE IF rows[i].status = RequestStatusRejected
            THEN call' = [ErrorResponse(c, ErrRejected) EXCEPT ![c].key = key, ![c].uf = uf]
            ELSE call' = proceed
  /\ UNCHANGED << rows, events, queue, uuid, sequence, due, aged, h, sched,
                  deliveries, audit >>
  /\ UNCHANGED << redelivered, proc, seqvars, keyvars >>

\* EmitNFce from "Generate new request ID" on: requestID is drawn before Create,
\* Create draws the id the row is stored under, and the message carries requestID.
\* A failed publish is ignored.
EmitNFce(c) ==
  /\ call[c].pc = "create"
  /\ LET requestID == uuid + 1
         rowID == uuid + 2
         n == [NewRow(call[c].key) EXCEPT !.uf = call[c].uf] IN
       /\ uuid' = uuid + 2
       /\ IF CreateFails(call[c].key)
          THEN /\ call' = ErrorResponse(c, ErrCreate)
               /\ UNCHANGED << rows, queue, audit >>
          ELSE /\ rows' = (rowID :> n) @@ rows
               /\ audit' = (rowID :> NewAudit) @@ audit
               /\ \E published \in BOOLEAN :
                    queue' = IF published
                             THEN Publish(queue, EmitMessage(requestID, call[c].key))
                             ELSE queue
               /\ call' = ToResponse(c, rowID, n)
  /\ UNCHANGED << events, sequence, due, aged, h, sched, deliveries >>
  /\ UNCHANGED << redelivered, proc, seqvars, keyvars >>

\* The other version of the use case: the message carries the id Create assigned,
\* and a failed publish fails the call (the row stays).
EmitNFceAssigned(c) ==
  /\ call[c].pc = "create"
  /\ LET rowID == uuid + 1
         n == [NewRow(call[c].key) EXCEPT !.uf = call[c].uf] IN
       /\ uuid' = uuid + 1
       /\ IF CreateFails(call[c].key)
          THEN /\ call' = ErrorResponse(c, ErrCreate)
               /\ UNCHANGED << rows, queue, audit >>
          ELSE /\ rows' = (rowID :> n) @@ rows
               /\ audit' = (rowID :> NewAudit) @@ audit
               /\ \E published \in BOOLEAN :
                    IF published
                    THEN /\ queue' = Publish(queue, EmitMessage(rowID, call[c].key))
                         /\ call' = ToResponse(c, rowID, n)
                    ELSE /\ queue' = queue
                         /\ call' = ErrorResponse(c, ErrPublish)
  /\ UNCHANGED << events, sequence, due, aged, h, sched, deliveries >>
  /\ UNCHANGED << redelivered, proc, seqvars, keyvars >>

\* CancelNFce: only an authorized request; UpdateStatus(authorized -> canceled).
CancelNFce(id) ==
  /\ rows[id].status = RequestStatusAuthorized
  /\ rows' = UpdateStatus(id, RequestStatusAuthorized, RequestStatusCanceled)
  /\ UNCHANGED << events, queue, uuid, sequence, due, aged, call, h, sched,
                  deliveries, audit >>
  /\ UNCHANGED << redelivered, proc, seqvars, keyvars >>

\* ------------------------------------------------------------ SEFAZ client
\* What one run of the pipeline meets: a step that fails before the authority
\* answers, or the authority's answer.
CStats == {100, 108, 110, 204, 225, 503, 691}

Failures == {"build", "xsd", "sign", "xsd_signed", "transport"}

Outcomes ==
  [kind : Failures, cstat : {Empty}, nProt : {FALSE}]
    \cup [kind : {"response"}, cstat : CStats \ {100}, nProt : {FALSE}]
    \cup [kind : {"response"}, cstat : {100}, nProt : BOOLEAN]

\* determineStatus without the denial codes.
determineStatusWithoutDenial(cstat) ==
  IF cstat \in {100, 101, 102, 103, 104, 105, 106, 107, 108, 109, 150} THEN "authorized"
  ELSE "error"

determineStatus(cstat) ==
  IF cstat \in {100, 101, 102, 103, 104, 105, 106, 107, 108, 109, 150} THEN "authorized"
  ELSE IF cstat \in 110..119 THEN "denied"
  ELSE "error"

IsRetryableError(cstat) ==
  IF cstat >= 500 /\ cstat <= 599 THEN TRUE
  ELSE cstat \in {108, 109, 500, 503, 301, 302, 691, 692, 693, 204, 539}

\* --------------------------------------------------------- NFCeWorkerService
shouldUseContingency(cstat) ==
  IF cstat >= 500 /\ cstat <= 599 THEN TRUE
  ELSE cstat \in {108, 109, 691, 692, 693}

\* numero and serie are the literals "1"; the access key embeds the number
\* BuildNFCe drew, so the number stands for the key; the protocol is the
\* authority's nProt, "" when the answer carries none.
\* uploaded: whether storeXMLFile, generateAndStorePDFFile and storeQRCodeImage
\* succeeded; a failed upload leaves the fallback URL in its place.
handleAuthorized(n, chaveAcesso, nProt, uploaded) ==
  [ MarkAsAuthorized(n, chaveAcesso, IF nProt THEN chaveAcesso ELSE Empty, 1, 1)
      EXCEPT !.urls = IF uploaded THEN "stored" ELSE "fallback" ]

\* handleAuthorized returning the upload's error.
handleAuthorizedFailsOnUpload(uploaded) == ~uploaded

\* Whether handleAuthorized returns an error: upload failures are printed only.
handleAuthorizedFails(uploaded) == FALSE

\* Whether the object store takes the documents of this run: an outcome that
\* does not say so is one where it does.
uploaded(o) == IF "upload" \in DOMAIN o THEN o.upload ELSE TRUE

handleRejected(n, cstat) == MarkAsRejected(n, cstat)

\* buildIde leaving the emission type at normal.
tpEmisNormal(contingency, contingencyType) == 1

\* buildIde: the emission type of the document.
tpEmis(contingency, contingencyType) ==
  IF contingency /\ contingencyType = "SVC-AN" THEN 6
  ELSE IF contingency /\ contingencyType = "SVC-RS" THEN 7
  ELSE 1

\* soapClient.Authorize: the endpoint of the contingency system named, or the
\* one of the emitter's state; with it, what the document says of its emission.
AuthorizationRequest(uf, contingency, contingencyType) ==
  [ endpoint |-> IF contingency THEN contingencyType ELSE uf,
    tpEmis |-> tpEmis(contingency, contingencyType) ]

\* One pass of processNFceEmissionWithContingency up to its return or its call of
\* tryContingency.  nNF is the number BuildNFCe would draw.  Result: the entity,
\* whether an error is returned, whether tryContingency is called, whether
\* BuildNFCe drew the number, and the requests handed to the SOAP client.
Pass(n, contingency, contingencyType, o, nNF) ==
  LET p == MarkAsProcessing(n)
      authReq == << AuthorizationRequest(n.uf, contingency, contingencyType) >>
      result(e, err, again, drew, sent) ==
        [req |-> e, err |-> err, again |-> again, drew |-> drew, sent |-> sent] IN
  IF o.kind = "build" THEN result(p, TRUE, FALSE, FALSE, << >>)
  ELSE IF o.kind = "transport" THEN result(p, TRUE, FALSE, TRUE, authReq)
  ELSE IF o.kind \in Failures THEN result(p, TRUE, FALSE, TRUE, << >>)
  ELSE IF determineStatus(o.cstat) = "authorized"
       THEN result(handleAuthorized(p, nNF, o.nProt, uploaded(o)),
                   handleAuthorizedFails(uploaded(o)), FALSE, TRUE, authReq)
  ELSE IF determineStatus(o.cstat) = "denied"
       THEN result(handleRejected(p, o.cstat), FALSE, FALSE, TRUE, authReq)
  ELSE IF shouldUseContingency(o.cstat) /\ ~contingency
       THEN result(p, FALSE, TRUE, TRUE, authReq)
  ELSE IF IsRetryableError(o.cstat) THEN result(p, TRUE, FALSE, TRUE, authReq)
  ELSE result(MarkAsRejected(p, o.cstat), TRUE, FALSE, TRUE, authReq)

\* ProcessNFceEmission: the first pass, and the contingency pass tryContingency
\* runs when the first pass asks for it.  o1, o2: what each pass meets.
ProcessNFceEmission(n, o1, o2, lastNumber) ==
  LET first == Pass(n, FALSE, "", o1, lastNumber + 1)
      drawn1 == IF first.drew THEN lastNumber + 1 ELSE lastNumber
      contingencyType == IF n.uf = "RS" THEN "SVC-RS" ELSE "SVC-AN"
      second == Pass(MarkAsContingency(first.req, contingencyType), TRUE,
                     contingencyType, o2, drawn1 + 1)
      drawn2 == IF second.drew THEN drawn1 + 1 ELSE drawn1 IN
  IF first.again
  THEN [req |-> second.req, err |-> second.err, sequence |-> drawn2, passes |-> 2,
        sent |-> first.sent \o second.sent]
  ELSE [req |-> first.req, err |-> first.err, sequence |-> drawn1, passes |-> 1,
        sent |-> first.sent]

\* ------------------------------------------------------------------ worker
\* Base delays in minutes: 1m, 5m, 15m, 1h, 6h, 24h.
baseDelays == << 1, 5, 15, 60, 360, 1440 >>

\* calculateBackoffDelay indexing the list with the retry count itself, from zero.
calculateBackoffDelayFromZero(retryCount) ==
  IF retryCount < Len(baseDelays) THEN baseDelays[retryCount + 1] ELSE 1440

calculateBackoffDelay(retryCount) ==
  IF retryCount <= Len(baseDelays) THEN baseDelays[retryCount] ELSE 1440

\* next_retry_at is kept as the delay it was set with; "due" tells whether that
\* moment has passed.
scheduleRetry(n) ==
  LET r == IncrementRetry(n) IN
  [r EXCEPT !.nextRetryAt = calculateBackoffDelay(r.retryCount),
            !.status = RequestStatusRetrying]

\* handleMessage saving the request as ProcessNFceEmission left it.
AfterEmissionWithoutDecision(res, isAged) == res.req

\* handleMessage after ProcessNFceEmission returned: the retry decision.
AfterEmission(res, isAged) ==
  IF ~res.err THEN res.req
  ELSE IF CanRetry(res.req, MaxRetries, isAged) THEN scheduleRetry(res.req)
  ELSE MarkAsRejected(res.req, 999)

HIdle ==
  [pc |-> "idle", id |-> 0, key |-> 0, observed |-> "", req |-> NewRow(0),
   sent |-> << >>]

\* A body that json.Unmarshal rejects.
Malformed == [rid |-> Empty, key |-> Empty, body |-> "not json"]

\* A delivery of the consumer up to handleMessage's idempotency check.  The body
\* does not parse: Nack without requeue.  GetByID fails: the handler returns the
\* error, shouldRetry is true and the consumer requeues the message.  The request
\* is already authorized: nil, the message is acknowledged.  Otherwise the
\* handler goes on with its copy of the row.
Deliver(w, m) ==
  /\ h[w].pc = "idle"
  /\ BagIn(m, queue)
  /\ IF m = Malformed
     THEN /\ queue' = Take(queue, m)
          /\ UNCHANGED << h, deliveries, redelivered >>
     ELSE IF m.rid \notin Ids
     THEN /\ redelivered' = redelivered \cup {m}
          /\ UNCHANGED << queue, h, deliveries >>
     ELSE IF rows[m.rid].status = RequestStatusAuthorized
     THEN /\ queue' = Take(queue, m)
          /\ deliveries' = deliveries + 1
          /\ UNCHANGED << h, redelivered >>
     ELSE /\ queue' = Take(queue, m)
          /\ deliveries' = deliveries + 1
          /\ h' = [h EXCEPT ![w] = [pc |-> "loaded", id |-> m.rid, key |-> m.key,
                                    observed |-> rows[m.rid].status,
                                    req |-> rows[m.rid], sent |-> << >>]]
          /\ UNCHANGED redelivered
  /\ UNCHANGED << rows, events, uuid, sequence, due, aged, call, sched, audit, proc >>
  /\ UNCHANGED << seqvars, keyvars >>

\* Bodies the consumer rejects as poison: one that is not JSON, and a JSON
\* object without request_id (RequestID is then "").
PoisonMessages == { Malformed, EmitMessage(Empty, 1) }

\* Another client of the broker puts a body on nfce.emit.
PublishForeign(m) ==
  /\ ~BagIn(m, queue)
  /\ queue' = Publish(queue, m)
  /\ UNCHANGED << rows, events, uuid, sequence, due, aged, call, h, sched,
                  deliveries, audit, redelivered, proc >>
  /\ UNCHANGED << seqvars, keyvars >>

\* handleMessage: ProcessNFceEmission, the retry decision and repo.Update.
Emit(w, o1, o2) ==
  /\ h[w].pc = "loaded"
  /\ LET id == h[w].id
         res == ProcessNFceEmission(h[w].req, o1, o2, sequence)
         n == AfterEmission(res, id \in aged) IN
       /\ sequence' = res.sequence
       /\ rows' = Update(id, n)
       /\ due' = IF res.err /\ n.status = RequestStatusRetrying THEN due \ {id} ELSE due
       /\ h' = [h EXCEPT ![w].pc = "saved", ![w].req = n, ![w].sent = res.sent]
       /\ audit' = IF n.status = RequestStatusRetrying
                         /\ rows[id].status # RequestStatusRetrying
                    THEN [audit EXCEPT ![id] = NewAudit]
                    ELSE audit
  /\ UNCHANGED << events, queue, uuid, aged, call, sched, deliveries >>
  /\ UNCHANGED << redelivered, proc, seqvars, keyvars >>

Event(requestID, from, to, cstat) ==
  [rid |-> requestID, statusFrom |-> from, statusTo |-> to, cstat |-> cstat]

\* The event handleMessage builds after repo.Update: StatusFrom is the literal
\* RequestStatusProcessing, StatusTo the status of the handler's copy.
TrackedEvent(w) ==
  Event(h[w].id, RequestStatusProcessing, h[w].req.status, h[w].req.cstat)

\* handleMessage: CreateEvent, then nil: the consumer acknowledges the message.
Track(w) ==
  /\ h[w].pc = "saved"
  /\ events' = Append(events, TrackedEvent(w))
  /\ h' = [h EXCEPT ![w] = HIdle]
  /\ UNCHANGED << rows, queue, uuid, sequence, due, aged, call, sched, deliveries,
                  audit >>
  /\ UNCHANGED << redelivered, proc, seqvars, keyvars >>

SIdle == [pc |-> "idle", batch |-> << >>]

\* processPendingRetries: the query.  The copies it returns are what the loop
\* works on.
Poll(w) ==
  /\ sched[w].pc = "idle"
  /\ GetPendingRetries # {}
  /\ sched' = [sched EXCEPT ![w] =
                 [pc |-> "run", batch |-> [i \in GetPendingRetries |-> rows[i]]]]
  /\ UNCHANGED << rows, events, queue, uuid, sequence, due, aged, call, h,
                  deliveries, audit >>
  /\ UNCHANGED << redelivered, proc, seqvars, keyvars >>

\* processPendingRetries: one turn of the loop: status processing, next_retry_at
\* nil, repo.Update, PublishEmit (a failed publish is logged and the loop goes on).
Requeue(w, id) ==
  /\ sched[w].pc = "run"
  /\ id \in DOMAIN sched[w].batch
  /\ LET req == [sched[w].batch[id] EXCEPT !.status = RequestStatusProcessing,
                                           !.nextRetryAt = Nil]
         rest == [i \in DOMAIN sched[w].batch \ {id} |-> sched[w].batch[i]] IN
       /\ rows' = Update(id, req)
       /\ \E published \in BOOLEAN :
            /\ queue' = IF published THEN Publish(queue, EmitMessage(id, req.key))
                        ELSE queue
            /\ audit' = [audit EXCEPT ![id].claims = @ + 1,
                           ![id].republished = IF published THEN @ + 1 ELSE @]
       /\ sched' = [sched EXCEPT ![w] =
                      IF DOMAIN rest = {} THEN SIdle ELSE [pc |-> "run", batch |-> rest]]
  /\ UNCHANGED << events, uuid, sequence, due, aged, call, h, deliveries >>
  /\ UNCHANGED << redelivered, proc, seqvars, keyvars >>

\* ------------------------------------------------------------ Worker.Stop
\* Worker.Stop: close(w.shutdown); it then waits for the two goroutines of
\* Start or for its own 30-second deadline.
Stop(w) ==
  /\ proc[w] = "running"
  /\ proc' = [proc EXCEPT ![w] = "stopping"]
  /\ UNCHANGED << rows, events, queue, uuid, sequence, due, aged, call, h, sched,
                  deliveries, audit, redelivered >>
  /\ UNCHANGED << seqvars, keyvars >>

SReturned == [pc |-> "returned", batch |-> << >>]

\* scheduleRetries: the select finds w.shutdown closed and the goroutine returns.
\* A tick that is ready at the same time may be chosen instead.
ScheduleRetriesReturn(w) ==
  /\ proc[w] = "stopping"
  /\ sched[w].pc = "idle"
  /\ sched' = [sched EXCEPT ![w] = SReturned]
  /\ UNCHANGED << rows, events, queue, uuid, sequence, due, aged, call, h,
                  deliveries, audit, redelivered, proc >>
  /\ UNCHANGED << seqvars, keyvars >>

\* Whether the consumer's goroutine of Start has returned.  ConsumeEmit returns
\* when the context given to Start is done or the delivery channel is closed;
\* main gives Start context.Background(), and Stop cancels and closes nothing
\* but w.shutdown.
ConsumerReturned(w) == FALSE

\* wg.Wait of Stop returns: both goroutines of Start have called wg.Done.
WaitGroupDone(w) == sched[w].pc = "returned" /\ ConsumerReturned(w)

\* Worker.Stop's deadline passes: the consumer's goroutine selects on the
\* context of Start only, which main never cancels, so wg.Wait does not return;
\* Stop returns ctx.Err() and main exits.  The broker takes back the delivery
\* the process had not acknowledged.
StopTimeout(w) ==
  /\ proc[w] = "stopping"
  /\ ~WaitGroupDone(w)
  /\ proc' = [proc EXCEPT ![w] = "exited"]
  /\ queue' = IF h[w].pc = "idle" THEN queue
              ELSE Publish(queue, EmitMessage(h[w].id, h[w].key))
  /\ h' = [h EXCEPT ![w] = HIdle]
  /\ sched' = [sched EXCEPT ![w] = SReturned]
  /\ UNCHANGED << rows, events, uuid, sequence, due, aged, call, deliveries, audit,
                  redelivered >>
  /\ UNCHANGED << seqvars, keyvars >>

\* -------------------------------------------- get_next_nfce_number (plpgsql)
\* GetNextNFCeNumber runs SELECT get_next_nfce_number(company, '1') as one
\* transaction under READ COMMITTED: each statement of the function sees the rows
\* committed when it starts, an UPDATE or INSERT that meets another transaction's
\* uncommitted write of the same row or key waits for that transaction to end,
\* and the transaction's own writes become visible to the others when the call
\* returns.
None == 0

TxIdle == [pc |-> "idle", company |-> 0, next_number |-> 0, ok |-> FALSE]

\* UPDATE nfce_sequences SET ultimo_numero = ultimo_numero + 1 WHERE company_id = ...
\* FOUND: the row is locked and incremented in the transaction.  NOT FOUND: no
\* committed row.
UpdateSequence(c, company) ==
  /\ tx[c].pc = "idle"
  /\ calls < MaxCalls
  /\ calls' = calls + 1
  /\ IF company \in DOMAIN nfce_sequences
     THEN /\ rowlock[company] = None
          /\ rowlock' = [rowlock EXCEPT ![company] = c]
          /\ tx' = [tx EXCEPT ![c] = [pc |-> "found", company |-> company,
                                     next_number |-> nfce_sequences[company] + 1,
                                     ok |-> FALSE]]
     ELSE /\ tx' = [tx EXCEPT ![c] = [pc |-> "not_found", company |-> company,
                                     next_number |-> 0, ok |-> FALSE]]
          /\ UNCHANGED rowlock
  /\ UNCHANGED << nfce_sequences, inserted, returned >>
  /\ UNCHANGED << pipeline, keyvars >>

\* IF NOT FOUND: INSERT ... VALUES (company, serie, 1) RETURNING ultimo_numero.
\* company_id is UNIQUE: the INSERT waits for an uncommitted INSERT of the same
\* company, and fails when a row of the company is committed.
InsertSequence(c) ==
  /\ tx[c].pc = "not_found"
  /\ LET company == tx[c].company IN
       /\ inserted[company] = None
       /\ IF company \in DOMAIN nfce_sequences
          THEN /\ tx' = [tx EXCEPT ![c].pc = "done", ![c].ok = FALSE]
               /\ UNCHANGED inserted
          ELSE /\ tx' = [tx EXCEPT ![c].pc = "written", ![c].next_number = 1]
               /\ inserted' = [inserted EXCEPT ![company] = c]
  /\ UNCHANGED << nfce_sequences, rowlock, calls, returned >>
  /\ UNCHANGED << pipeline, keyvars >>

\* ELSE: SELECT ultimo_numero INTO next_number: the transaction reads its own
\* update.
SelectSequence(c) ==
  /\ tx[c].pc = "found"
  /\ tx' = [tx EXCEPT ![c].pc = "written"]
  /\ UNCHANGED << nfce_sequences, rowlock, inserted, calls, returned >>
  /\ UNCHANGED << pipeline, keyvars >>

\* RETURN next_number: the statement ends, its transaction commits and
\* GetNextNFCeNumber returns the number.
ReturnSequence(c) ==
  /\ tx[c].pc = "written"
  /\ LET company == tx[c].company
         n == tx[c].next_number IN
       /\ nfce_sequences' =
            IF company \in DOMAIN nfce_sequences
            THEN [nfce_sequences EXCEPT ![company] = n]
            ELSE (company :> n) @@ nfce_sequences
       /\ rowlock' = [rowlock EXCEPT ![company] = IF @ = c THEN None ELSE @]
       /\ inserted' = [inserted EXCEPT ![company] = IF @ = c THEN None ELSE @]
       /\ returned' = [returned EXCEPT ![company] = Append(@, n)]
  /\ tx' = [tx EXCEPT ![c].pc = "done", ![c].ok = TRUE]
  /\ UNCHANGED calls
  /\ UNCHANGED << pipeline, keyvars >>

\* The caller is ready for another call.
NextCall(c) ==
  /\ tx[c].pc = "done"
  /\ tx[c].ok
  /\ tx' = [tx EXCEPT ![c] = TxIdle]
  /\ UNCHANGED << nfce_sequences, rowlock, inserted, calls, returned >>
  /\ UNCHANGED << pipeline, keyvars >>

\* UpdateNFCeSequence: UPDATE nfce_sequences SET ultimo_numero = lastNumber
\* WHERE company_id = ...: one statement, which waits for the row's lock.
UpdateNFCeSequence(company, lastNumber) ==
  /\ company \in DOMAIN nfce_sequences
  /\ rowlock[company] = None
  /\ nfce_sequences[company] # lastNumber
  /\ nfce_sequences' = [nfce_sequences EXCEPT ![company] = lastNumber]
  /\ UNCHANGED << rowlock, inserted, tx, calls, returned >>
  /\ UNCHANGED << pipeline, keyvars >>

\* -------------------------------------------------------------------- time
\* The stored next_retry_at of a request comes to pass.
RetryDue(id) ==
  /\ rows[id].nextRetryAt # Nil
  /\ id \notin due
  /\ due' = due \cup {id}
  /\ UNCHANGED << rows, events, queue, uuid, sequence, aged, call, h, sched,
                  deliveries, audit >>
  /\ UNCHANGED << redelivered, proc, seqvars, keyvars >>

\* A request becomes older than 48 hours.
Age(id) ==
  /\ id \notin aged
  /\ aged' = aged \cup {id}
  /\ UNCHANGED << rows, events, queue, uuid, sequence, due, call, h, sched,
                  deliveries, audit >>
  /\ UNCHANGED << redelivered, proc, seqvars, keyvars >>

\* ------------------------------------------------------------- access key
Digits == 0..9

\* CUF + AAMM + CNPJ + MOD + SERIE + NNF + TPEMIS + CNF, as GenerateChaveAcesso
\* lays the key out: one key of an issuer in SP, series 1, number 1.
BaseChave ==
  << 3, 5,   2, 4, 0, 1,   1, 2, 3, 4, 5, 6, 7, 8, 0, 0, 0, 1, 9, 5,   6, 5,
     0, 0, 1,   0, 0, 0, 0, 0, 0, 0, 0, 1,   1,   0, 0, 0, 0, 0, 0, 0, 0 >>

\* The keys whose last digits (of the random code cNF) are any digits.
Chaves(free) ==
  { [i \in 1..Len(BaseChave) |->
       IF i > Len(BaseChave) - free THEN tail[i - (Len(BaseChave) - free)]
       ELSE BaseChave[i]] : tail \in [1..free -> Digits] }

\* weights with a multiple of the modulus among them.
weightsWithEleven == << 2, 3, 4, 5, 6, 7, 8, 11 >>

weights == << 2, 3, 4, 5, 6, 7, 8, 9 >>

\* The loop of CalculateDV, from index i (0-based, as in the code) down to 0.
RECURSIVE WeightedSum(_, _)
WeightedSum(key, i) ==
  IF i < 0 THEN 0
  ELSE key[i + 1] * weights[((42 - i) % 8) + 1] + WeightedSum(key, i - 1)

\* CalculateDV: the digit strconv.Itoa prints, as a number.
CalculateDV(key) ==
  IF Len(key) # 43 THEN 0
  ELSE LET remainder == WeightedSum(key, 42) % 11 IN
         IF remainder = 0 \/ remainder = 1 THEN 0 ELSE 11 - remainder

\* The key with the digit at position i replaced by d, and its check digit.
ReplaceDigit(i, d) ==
  /\ ~replaced
  /\ d # chave[i]
  /\ chave' = [chave EXCEPT ![i] = d]
  /\ cdv' = CalculateDV(chave')
  /\ cdvBefore' = cdv
  /\ replaced' = TRUE
  /\ UNCHANGED << pipeline, seqvars >>

Done(c) == call[c].pc = "done"

\* ----------------------------------------------------------- specification
Init ==
  /\ rows = << >>
  /\ events = << >>
  /\ queue = EmptyBag
  /\ uuid = 0
  /\ sequence = 0
  /\ due = {}
  /\ aged = {}
  /\ call = [c \in Callers |-> Idle]
  /\ h = [w \in Workers |-> HIdle]
  /\ sched = [w \in Workers |-> SIdle]
  /\ deliveries = 0
  /\ audit = << >>
  /\ redelivered = {}
  /\ proc = [w \in Workers |-> "running"]
  /\ nfce_sequences = << >>
  /\ rowlock = [company \in Companies |-> None]
  /\ inserted = [company \in Companies |-> None]
  /\ tx = [c \in Callers |-> TxIdle]
  /\ calls = 0
  /\ returned = [company \in Companies |-> << >>]
  /\ chave = BaseChave
  /\ cdv = CalculateDV(chave)
  /\ cdvBefore = cdv
  /\ replaced = FALSE

\* What ends a delivery count: no further message is handed to a handler.
Open(bound, m) == m.rid \in Ids => deliveries < bound

\* Spec: the whole pipeline around the requests of one idempotency key, all
\* younger than 48 hours.
Next ==
  \/ \E c \in Callers, uf \in UFs : EmitNFceLookup(c, 1, uf)
  \/ \E c \in Callers : EmitNFce(c)
  \/ \E c \in Callers : EmitNFceAssigned(c)
  \/ \E id \in Ids : CancelNFce(id)
  \/ \E w \in Workers, m \in BagToSet(queue) : Open(MaxDeliveries, m) /\ Deliver(w, m)
  \/ \E w \in Workers, o1 \in Outcomes, o2 \in Outcomes : Emit(w, o1, o2)
  \/ \E w \in Workers : Track(w)
  \/ \E w \in Workers : Poll(w)
  \/ \E w \in Workers, id \in Ids : Requeue(w, id)
  \/ \E id \in Ids : RetryDue(id)

Spec == Init /\ [][Next]_vars

\* SpecIntake: intake under every key, with one worker moving the requests
\* through their statuses.
IntakeOutcomes ==
  { o \in Outcomes : o.kind = "transport" \/ o.cstat \in {100, 110} }

NextIntake ==
  \/ \E c \in Callers, key \in Keys : EmitNFceLookup(c, key, "SP")
  \/ \E c \in Callers : EmitNFce(c)
  \/ \E c \in Callers : EmitNFceAssigned(c)
  \/ \E m \in BagToSet(queue) : Open(IntakeDeliveries, m) /\ Deliver(1, m)
  \/ \E o \in IntakeOutcomes : Emit(1, o, o)
  \/ Track(1)

SpecIntake == Init /\ [][NextIntake]_vars

\* One request followed through its whole retry budget, as time passes:
\* MaxRetries + 1 deliveries exhaust it.  The authority is unreachable or
\* authorizes.
BudgetDeliveries == MaxRetries + 1

BudgetOutcomes ==
  { o \in Outcomes : o.kind = "transport" \/ (o.cstat = 100 /\ o.nProt) }

NextRetry(W) ==
  \/ EmitNFceLookup(1, 1, "SP")
  \/ EmitNFceAssigned(1)
  \/ \E w \in W, m \in BagToSet(queue) : Open(BudgetDeliveries, m) /\ Deliver(w, m)
  \/ \E w \in W, o \in BudgetOutcomes : Emit(w, o, o)
  \/ \E w \in W : Track(w)
  \/ \E w \in W : Poll(w)
  \/ \E w \in W, id \in Ids : Requeue(w, id)
  \/ \E id \in Ids : RetryDue(id)
  \/ \E id \in Ids : Age(id)

\* SpecBudget: by BudgetWorkers workers.
NextBudget == NextRetry(1..BudgetWorkers)

SpecBudget == Init /\ [][NextBudget]_vars

\* SpecExhaust: by all the workers.
NextExhaust == NextRetry(Workers)

SpecExhaust == Init /\ [][NextExhaust]_vars

\* SpecSequence: callers of GetNextNFCeNumber, one transaction each at a time.
NextSequence ==
  \/ \E c \in Callers, company \in Companies : UpdateSequence(c, company)
  \/ \E c \in Callers : InsertSequence(c)
  \/ \E c \in Callers : SelectSequence(c)
  \/ \E c \in Callers : ReturnSequence(c)
  \/ \E c \in Callers : NextCall(c)

SpecSequence == Init /\ [][NextSequence]_vars

\* SpecRollback: the same, with UpdateNFCeSequence setting the counter.
NextRollback ==
  \/ NextSequence
  \/ \E company \in Companies, lastNumber \in 0..MaxCalls :
       UpdateNFCeSequence(company, lastNumber)

SpecRollback == Init /\ [][NextRollback]_vars

\* SpecOrphan: one worker process that keeps running: its consumer takes every
\* message waiting, its handler runs to its end, its scheduler's ticker fires
\* every 30 seconds, and time passes.
NextOrphan ==
  \/ \E c \in Callers : EmitNFceLookup(c, 1, "SP")
  \/ \E c \in Callers : EmitNFce(c)
  \/ \E c \in Callers : EmitNFceAssigned(c)
  \/ \E m \in BagToSet(queue) : Open(IntakeDeliveries, m) /\ Deliver(1, m)
  \/ \E o \in IntakeOutcomes : Emit(1, o, o)
  \/ Track(1)
  \/ Poll(1)
  \/ \E id \in Ids : Requeue(1, id)
  \/ \E id \in Ids : RetryDue(id)

FairOrphan ==
  /\ WF_vars(\E m \in BagToSet(queue) : Open(IntakeDeliveries, m) /\ Deliver(1, m))
  /\ WF_vars(\E o \in IntakeOutcomes : Emit(1, o, o))
  /\ WF_vars(Track(1))
  /\ WF_vars(Poll(1))
  /\ WF_vars(\E id \in Ids : Requeue(1, id))
  /\ WF_vars(\E id \in Ids : RetryDue(id))

SpecOrphan == Init /\ [][NextOrphan]_vars /\ FairOrphan

\* SpecPoison: the workers' consumers on a queue that also receives bodies they
\* cannot use.
NextPoison ==
  \/ \E m \in PoisonMessages : PublishForeign(m)
  \/ \E c \in Callers : EmitNFceLookup(c, 1, "SP")
  \/ \E c \in Callers : EmitNFceAssigned(c)
  \/ \E w \in Workers, m \in BagToSet(queue) :
       Open(IntakeDeliveries, m) /\ Deliver(w, m)
  \/ \E w \in Workers, o \in IntakeOutcomes : Emit(w, o, o)
  \/ \E w \in Workers : Track(w)

SpecPoison == Init /\ [][NextPoison]_vars

\* The consumers keep taking deliveries and the handlers keep running.
FairPoison ==
  /\ \A w \in Workers :
       WF_vars(\E m \in BagToSet(queue) : Open(IntakeDeliveries, m) /\ Deliver(w, m))
  /\ \A w \in Workers : WF_vars(\E o \in IntakeOutcomes : Emit(w, o, o))
  /\ \A w \in Workers : WF_vars(Track(w))

SpecRedelivery == Init /\ [][NextPoison]_vars /\ FairPoison

\* SpecStop: worker processes that are told to stop while requests come in.
\* An exited process takes no further step.
NextStop ==
  \/ \E c \in Callers : EmitNFceLookup(c, 1, "SP")
  \/ \E c \in Callers : EmitNFceAssigned(c)
  \/ \E w \in Workers : Stop(w)
  \/ \E w \in Workers : ScheduleRetriesReturn(w)
  \/ \E w \in Workers : StopTimeout(w)
  \/ \E w \in Workers, m \in BagToSet(queue) :
       proc[w] # "exited" /\ Open(IntakeDeliveries, m) /\ Deliver(w, m)
  \/ \E w \in Workers, o \in IntakeOutcomes : proc[w] # "exited" /\ Emit(w, o, o)
  \/ \E w \in Workers : proc[w] # "exited" /\ Track(w)
  \/ \E w \in Workers : Poll(w)
  \/ \E w \in Workers, id \in Ids : Requeue(w, id)
  \/ \E id \in Ids : RetryDue(id)

SpecStop == Init /\ [][NextStop]_vars

\* SpecReplay: caller 2 makes its EmitNFce call after the call of caller 1 has
\* returned, with any key and payload, while one worker consumes.
NextReplay ==
  \/ \E key \in Keys, uf \in UFs : EmitNFceLookup(1, key, uf)
  \/ \E key \in Keys, uf \in UFs : Done(1) /\ EmitNFceLookup(2, key, uf)
  \/ \E c \in Callers : EmitNFce(c)
  \/ \E c \in Callers : EmitNFceAssigned(c)
  \/ \E m \in BagToSet(queue) : Open(IntakeDeliveries, m) /\ Deliver(1, m)
  \/ \E o \in IntakeOutcomes : Emit(1, o, o)
  \/ Track(1)

SpecReplay == Init /\ [][NextReplay]_vars

\* SpecContingency: one request of an emitter of either state, handled by one
\* worker against an authority that may answer anything, over the deliveries
\* its retries bring.
NextContingency ==
  \/ \E uf \in UFs : EmitNFceLookup(1, 1, uf)
  \/ EmitNFceAssigned(1)
  \/ \E m \in BagToSet(queue) : Open(IntakeDeliveries, m) /\ Deliver(1, m)
  \/ \E o1 \in Outcomes, o2 \in Outcomes : Emit(1, o1, o2)
  \/ Track(1)
  \/ Poll(1)
  \/ \E id \in Ids : Requeue(1, id)
  \/ \E id \in Ids : RetryDue(id)

SpecContingency == Init /\ [][NextContingency]_vars

\* SpecStorage: requests handled by one worker against an authority that
\* authorizes or cannot be reached, with an object store that may refuse the
\* documents.
StorageOutcomes ==
  { o \in Outcomes : o.kind = "transport" }
    \cup [kind : {"response"}, cstat : {100}, nProt : {TRUE}, upload : BOOLEAN]

NextStorage ==
  \/ \E c \in Callers, key \in Keys : EmitNFceLookup(c, key, "SP")
  \/ \E c \in Callers : EmitNFceAssigned(c)
  \/ \E m \in BagToSet(queue) : Open(IntakeDeliveries, m) /\ Deliver(1, m)
  \/ \E o \in StorageOutcomes : Emit(1, o, o)
  \/ Track(1)
  \/ Poll(1)
  \/ \E id \in Ids : Requeue(1, id)
  \/ \E id \in Ids : RetryDue(id)

SpecStorage == Init /\ [][NextStorage]_vars

\* SpecTwice: one request, handled by all the workers and their schedulers,
\* with enough deliveries for a first attempt and two deliveries of its retry.
NextTwice ==
  \/ EmitNFceLookup(1, 1, "SP")
  \/ EmitNFceAssigned(1)
  \/ \E w \in Workers, m \in BagToSet(queue) :
       Open(TwiceDeliveries, m) /\ Deliver(w, m)
  \/ \E w \in Workers, o \in IntakeOutcomes : Emit(w, o, o)
  \/ \E w \in Workers : Track(w)
  \/ \E w \in Workers : Poll(w)
  \/ \E w \in Workers, id \in Ids : Requeue(w, id)
  \/ \E id \in Ids : RetryDue(id)

SpecTwice == Init /\ [][NextTwice]_vars

\* SpecKey: CalculateDV on the keys of Chaves(FreeDigits) and on every key that
\* differs from one of them in one digit.
InitKey ==
  /\ rows = << >>
  /\ events = << >>
  /\ queue = EmptyBag
  /\ uuid = 0
  /\ sequence = 0
  /\ due = {}
  /\ aged = {}
  /\ call = [c \in Callers |-> Idle]
  /\ h = [w \in Workers |-> HIdle]
  /\ sched = [w \in Workers |-> SIdle]
  /\ deliveries = 0
  /\ audit = << >>
  /\ redelivered = {}
  /\ proc = [w \in Workers |-> "running"]
  /\ nfce_sequences = << >>
  /\ rowlock = [company \in Companies |-> None]
  /\ inserted = [company \in Companies |-> None]
  /\ tx = [c \in Callers |-> TxIdle]
  /\ calls = 0
  /\ returned = [company \in Companies |-> << >>]
  /\ chave \in Chaves(FreeDigits)
  /\ cdv = CalculateDV(chave)
  /\ cdvBefore = cdv
  /\ replaced = FALSE

NextKey == \E i \in 1..Len(BaseChave), d \in Digits : ReplaceDigit(i, d)

SpecKey == InitKey /\ [][NextKey]_vars

\* ------------------------------------------------------------------ intake
\* C1: every EmitNFce call made with idempotency key K that the broker does not
\* fail returns a response, and the response carries the id of the row stored
\* for K: a call that loses the insert race returns the winner's record, not an
\* error.
EmitNFceReturnsTheStoredRequest ==
  \A c \in Callers :
    Done(c) /\ call[c].err # ErrPublish =>
      /\ call[c].ok
      /\ call[c].id \in Ids
      /\ rows[call[c].id].key = call[c].key

\* C2: for every idempotency key there is at most one row of nfce_requests, in
\* every reachable state and whatever the interleaving of the EmitNFce calls.
AtMostOneRequestPerKey ==
  \A i \in Ids, j \in Ids : rows[i].key = rows[j].key => i = j

\* Two calls with the same key both passed the idempotency check and both ran
\* Create: one stored the row, the other lost the insert race.
InsertRaceLost ==
  \E c \in Callers, d \in Callers :
    /\ c # d
    /\ Done(c) /\ Done(d)
    /\ call[c].key = call[d].key
    /\ call[c].ok /\ call[c].id \in Ids /\ rows[call[c].id].status = RequestStatusPending
    /\ call[d].err = ErrCreate

\* C3: the request_id of every EmitMessage EmitNFce publishes is the id of the
\* row the same call stored, so that GetByID on it finds the row of the
\* message's idempotency key.
EmitMessageCarriesTheRowId ==
  \A m \in BagToSet(queue) : m.rid \in Ids /\ rows[m.rid].key = m.key

\* ----------------------------------------------------------- status writes
\* The step is the repo.Update of worker w's handleMessage.
HandlerWrites(w) == h[w].pc = "loaded" /\ h'[w].pc = "saved"

\* The step is the loop turn of worker w's processPendingRetries on request id.
SchedulerWrites(w, id) ==
  /\ sched[w].pc = "run"
  /\ id \in DOMAIN sched[w].batch
  /\ sched'[w] # sched[w]
  /\ sched'[w].pc = "run" => id \notin DOMAIN sched'[w].batch

\* C4: a write that changes a request's status is applied only if the stored
\* status is the one the writer observed when it read the request; a writer
\* whose observed status is stale changes nothing in the row.
StatusWritesCompareAndSet ==
  [][ /\ \A w \in Workers :
           HandlerWrites(w) /\ h[w].observed # rows[h[w].id].status
             => rows'[h[w].id] = rows[h[w].id]
      /\ \A w \in Workers, id \in Ids :
           SchedulerWrites(w, id) /\ sched[w].batch[id].status # rows[id].status
             => rows'[id] = rows[id] ]_vars

\* C5: whatever the number of schedulers running concurrently, each entry of a
\* request into retrying leads to at most one retrying -> processing claim and
\* to at most one re-published message.
RetryClaimedOnce ==
  \A id \in Ids : audit[id].claims <= 1 /\ audit[id].republished <= 1

\* C6: every change of a request's persisted status is one of the transitions
\* of the allowed-transitions table.
OnlyAllowedTransitions ==
  [][ LET AllowedTransitions ==
            { << RequestStatusPending, RequestStatusProcessing >>,
              << RequestStatusProcessing, RequestStatusAuthorized >>,
              << RequestStatusProcessing, RequestStatusRejected >>,
              << RequestStatusProcessing, RequestStatusRetrying >>,
              << RequestStatusProcessing, RequestStatusContingency >>,
              << RequestStatusRetrying, RequestStatusProcessing >>,
              << RequestStatusContingency, RequestStatusProcessing >>,
              << RequestStatusAuthorized, RequestStatusCanceled >> } IN
      \A id \in Ids :
        rows'[id].status # rows[id].status
          => << rows[id].status, rows'[id].status >> \in AllowedTransitions ]_vars

\* ------------------------------------------------------------ retry budget
\* C7: in every reachable state every request has RetryCount <= MaxRetries.
RetryCountWithinBudget ==
  \A id \in Ids : rows[id].retryCount <= MaxRetries

\* A request younger than 48 hours used its whole budget, and the failure after
\* that rejected it with the synthetic reason.
BudgetExhausted ==
  \E id \in Ids :
    /\ id \notin aged
    /\ rows[id].retryCount = MaxRetries
    /\ rows[id].status = RequestStatusRejected
    /\ rows[id].rejectionCode = 999

\* The events recorded for a request, as positions in nfce_events.
EventsOf(id) == { k \in 1..Len(events) : events[k].rid = id }

RetryEvents(id) ==
  { k \in EventsOf(id) : events[k].statusTo = RequestStatusRetrying }

SyntheticRejections(id) ==
  { k \in EventsOf(id) : /\ events[k].statusTo = RequestStatusRejected
                         /\ events[k].cstat = 999 }

\* Every processing attempt recorded for the request failed with a retryable
\* failure: it ended in retrying or in the synthetic rejection.
OnlyRetryableFailures(id) ==
  EventsOf(id) = RetryEvents(id) \cup SyntheticRejections(id)

\* C8: a request (younger than 48 hours) whose every attempt fails with a
\* retryable failure is moved to retrying exactly MaxRetries times, and the
\* (MaxRetries+1)-th failure moves it to rejected with the synthetic reason 999.
\* Whenever no handler is at work: of the first MaxRetries failures each was a
\* move to retrying, and every failure after them was the synthetic rejection.
RetryBudgetExact ==
  \A id \in Ids :
    /\ id \notin aged
    /\ OnlyRetryableFailures(id)
    /\ \A w \in Workers : h[w].pc = "idle"
    => LET failures == Cardinality(EventsOf(id)) IN
       Cardinality(RetryEvents(id)) =
         IF failures <= MaxRetries THEN failures ELSE MaxRetries

\* -------------------------------------------------------- terminal statuses
\* C9: once a request's persisted status is rejected, no later operation
\* changes its status, and a handler that read the request as rejected (its
\* message was delivered again) appends no event for it.
RejectedIsTerminal ==
  [][ \A id \in Ids :
        /\ rows[id].status = RequestStatusRejected
             => rows'[id].status = RequestStatusRejected
        /\ \A w \in Workers :
             h[w].id = id /\ h[w].observed = RequestStatusRejected
               => events' = events ]_vars

\* C10: once a request's status is authorized, no later operation changes its
\* access key, protocol, document number or series.
AuthorizedFieldsImmutable ==
  [][ \A id \in Ids :
        rows[id].status = RequestStatusAuthorized =>
          /\ rows'[id].chaveAcesso = rows[id].chaveAcesso
          /\ rows'[id].protocolo = rows[id].protocolo
          /\ rows'[id].numero = rows[id].numero
          /\ rows'[id].serie = rows[id].serie ]_vars

\* ------------------------------------------------------- authorized requests
\* C11: whenever a request's status is authorized, its access key, protocol,
\* document number and series are all non-empty.
AuthorizedFieldsNonEmpty ==
  \A id \in Ids :
    rows[id].status = RequestStatusAuthorized =>
      /\ rows[id].chaveAcesso # Empty
      /\ rows[id].protocolo # Empty
      /\ rows[id].numero # Empty
      /\ rows[id].serie # Empty

\* ---------------------------------------------------------- sequence service
\* C12: when callers invoke GetNextNFCeNumber concurrently for one company, also
\* when the company has no counter row yet, every call succeeds and the numbers
\* returned are exactly last+1, ..., last+k, each once: from the first call on,
\* the k-th number returned for a company is k.
SequenceCallsAllSucceed ==
  /\ \A c \in Callers : tx[c].pc = "done" => tx[c].ok
  /\ \A company \in Companies :
       \A k \in 1..Len(returned[company]) : returned[company][k] = k

\* C13: for each company, every number GetNextNFCeNumber returns is strictly
\* greater than every number it returned before, after any sequence of
\* operations on the sequence table.
SequenceStrictlyIncreasing ==
  \A company \in Companies :
    \A i \in 1..Len(returned[company]), j \in 1..Len(returned[company]) :
      i < j => returned[company][i] < returned[company][j]

\* C14: the document numbers recorded on the requests of a company and series
\* are strictly increasing in order of issuance (the order of the numbers
\* BuildNFCe drew, which the access keys embed), so that no two requests record
\* the same document number.
DocumentNumbersIncrease ==
  \A i \in Ids, j \in Ids :
    /\ rows[i].numero # Empty
    /\ rows[j].numero # Empty
    /\ rows[i].chaveAcesso < rows[j].chaveAcesso
    => rows[i].numero < rows[j].numero

\* --------------------------------------------------- answers of the authority
\* C15: when the primary endpoint answers cStat 108 and the contingency endpoint
\* then answers cStat 100, the delivery stores the request as authorized with
\* InContingency = true, ContingencyType SVC-RS for an emitter of RS and SVC-AN
\* otherwise, and its RetryCount as it was.
ContingencyAfterParalysis ==
  [][ \A w \in Workers, nProt \in BOOLEAN :
        Emit(w, [kind |-> "response", cstat |-> 108, nProt |-> FALSE],
                [kind |-> "response", cstat |-> 100, nProt |-> nProt])
        => LET stored == rows'[h[w].id] IN
           /\ stored.status = RequestStatusAuthorized
           /\ stored.inContingency
           /\ stored.contingencyType = IF stored.uf = "RS" THEN "SVC-RS" ELSE "SVC-AN"
           /\ stored.retryCount = h[w].req.retryCount ]_vars

\* C16: when the authority answers cStat 204, the delivery stores the request as
\* rejected with rejection code 204, does not increment RetryCount and
\* schedules no retry.
DuplicateIsRejected ==
  [][ \A w \in Workers :
        Emit(w, [kind |-> "response", cstat |-> 204, nProt |-> FALSE],
                [kind |-> "response", cstat |-> 204, nProt |-> FALSE])
        => LET stored == rows'[h[w].id] IN
           /\ stored.status = RequestStatusRejected
           /\ stored.rejectionCode = 204
           /\ stored.retryCount = h[w].req.retryCount
           /\ stored.nextRetryAt = h[w].req.nextRetryAt ]_vars

\* C17: when the authority answers a cStat in 200-499 other than 204, the status
\* stored by that delivery is rejected, with that cStat as rejection code, and
\* no retry is scheduled.
BusinessRejectionIsRejected ==
  [][ \A w \in Workers, cstat \in (CStats \cap 200..499) \ {204} :
        Emit(w, [kind |-> "response", cstat |-> cstat, nProt |-> FALSE],
                [kind |-> "response", cstat |-> cstat, nProt |-> FALSE])
        => LET stored == rows'[h[w].id] IN
           /\ stored.status = RequestStatusRejected
           /\ stored.rejectionCode = cstat
           /\ stored.retryCount = h[w].req.retryCount
           /\ stored.nextRetryAt = h[w].req.nextRetryAt ]_vars

\* C18: when XSD validation (before or after signing), PFX decoding or signing
\* fails, the delivery stores the request as rejected with a reason, and does
\* not move it to retrying.
PipelineFailureIsRejected ==
  [][ \A w \in Workers, kind \in {"xsd", "sign", "xsd_signed"} :
        Emit(w, [kind |-> kind, cstat |-> Empty, nProt |-> FALSE],
                [kind |-> kind, cstat |-> Empty, nProt |-> FALSE])
        => LET stored == rows'[h[w].id] IN
           /\ stored.status = RequestStatusRejected
           /\ stored.rejectionCode # Empty
           /\ stored.retryCount = h[w].req.retryCount ]_vars

\* ---------------------------------------------------------------- event log
\* C19: for every change of a request's persisted status from s to t an event
\* with StatusFrom = s and StatusTo = t is appended for the request: by the step
\* that writes the status, or, for the write of handleMessage, by the CreateEvent
\* that follows it.
EveryTransitionHasItsEvent ==
  [][ \A id \in Ids :
        rows'[id].status # rows[id].status =>
          \/ /\ Len(events') = Len(events) + 1
             /\ events'[Len(events')].rid = id
             /\ events'[Len(events')].statusFrom = rows[id].status
             /\ events'[Len(events')].statusTo = rows'[id].status
          \/ \E w \in Workers :
               /\ HandlerWrites(w)
               /\ h[w].id = id
               /\ TrackedEvent(w)'.statusFrom = rows[id].status
               /\ TrackedEvent(w)'.statusTo = rows'[id].status ]_vars

\* C20: whenever no operation on the requests is in progress, applying a
\* request's events in creation order, starting from pending (each event leaves
\* the request in its StatusTo), yields the status stored for the request.
ReplayYieldsStoredStatus ==
  (\A w \in Workers : h[w].pc = "idle" /\ sched[w].pc = "idle") =>
    \A id \in Ids :
      LET last == { k \in EventsOf(id) : \A l \in EventsOf(id) : l <= k } IN
      rows[id].status =
        IF last = {} THEN RequestStatusPending
        ELSE events[CHOOSE k \in last : TRUE].statusTo

\* ------------------------------------------------------------ orphaned requests
\* The request is pending and nothing is on its way to a worker for it: no
\* message of its idempotency key waits in the queue and no handler holds it.
Orphaned(id) ==
  /\ id \in Ids
  /\ rows[id].status = RequestStatusPending
  /\ \A m \in BagToSet(queue) : m.key # rows[id].key
  /\ \A w \in Workers : h[w].pc # "idle" => h[w].id # id

\* C21: if PublishEmit fails after the request was persisted as pending, the
\* retry scheduler eventually re-publishes a message for the request: a request
\* left pending without a message does not stay so forever.
OrphanedPendingIsRepublished ==
  \A id \in 1..(2 * NumCallers) : Orphaned(id) ~> ~Orphaned(id)

\* ------------------------------------------------------------------ consumer
\* C23: a message whose body is malformed JSON or lacks request_id is negatively
\* acknowledged without requeue: the broker never holds it as redelivered.
PoisonIsNotRequeued ==
  \A m \in PoisonMessages : m \notin redelivered

\* --------------------------------------------------------------- request age
\* C22: when a request in retrying is older than 48 hours, the retry scheduler
\* moves it to rejected with the synthetic reason instead of re-publishing it.
AgedRetryIsRejectedByScheduler ==
  [][ \A w \in Workers, id \in Ids :
        /\ SchedulerWrites(w, id)
        /\ id \in aged
        /\ rows[id].status = RequestStatusRetrying
        => /\ rows'[id].status = RequestStatusRejected
           /\ rows'[id].rejectionCode = 999
           /\ queue' = queue ]_vars

\* -------------------------------------------------------------- shutdown
\* C24: after Worker.Stop is called, no further broker delivery is handed to
\* handleMessage: a handler that is idle once w.shutdown is closed stays idle.
NoDeliveryAfterStop ==
  [][ \A w \in Workers :
        proc[w] # "running" /\ h[w].pc = "idle" => h'[w].pc = "idle" ]_vars

\* ------------------------------------------------------------------ replay
\* C25: an EmitNFce call made with the idempotency key and payload of an earlier
\* call that has returned a request, while that request is not rejected, returns
\* the id of that request with its current status and creates no request.
ReplayReturnsFirstRequest ==
  [][ /\ Done(1) /\ call[1].ok
      /\ call[2].pc # "done" /\ call'[2].pc = "done"
      /\ call'[2].key = call[1].key /\ call'[2].uf = call[1].uf
      /\ rows[call[1].id].status # RequestStatusRejected
      => /\ call'[2].ok
         /\ call'[2].id = call[1].id
         /\ call'[2].status = rows[call[1].id].status
         /\ DOMAIN rows' = DOMAIN rows ]_vars

\* ------------------------------------------------------------- check digit
\* C26 (as stated): for every 43-digit prefix and every position, replacing the
\* digit at that position with a different digit changes CalculateDV's result.
SingleDigitChangesDV == replaced => cdv # cdvBefore

\* C26 (amended): replacing one digit of a 43-digit prefix with a different
\* digit changes CalculateDV's result, unless both results are 0 (the remainders
\* 0 and 1 both give the check digit 0).
SingleDigitChangesDVUnlessZero == replaced => (cdv # cdvBefore \/ (cdv = 0 /\ cdvBefore = 0))

\* A digit was replaced and the check digit changed from one non-zero digit to
\* another.
DigitReplacedAndDVChanged == replaced /\ cdv # cdvBefore /\ cdv # 0 /\ cdvBefore # 0

\* ----------------------------------------------------------------- backoff
\* C27: when a handler schedules the k-th retry of a request (it read the
\* request with k-1 retries and stores it in retrying with retry count k, k in
\* 1..MaxRetries), the next_retry_at it stores is the time of scheduling plus the
\* k-th of the delays 1m, 5m, 15m, 1h, 6h, 24h (in minutes).
BackoffFollowsSchedule ==
  [][ \A w \in Workers :
        HandlerWrites(w) /\ rows'[h[w].id].status = RequestStatusRetrying
        => LET k == rows'[h[w].id].retryCount IN
           /\ k = h[w].req.retryCount + 1
           /\ k \in 1..MaxRetries
           /\ rows'[h[w].id].nextRetryAt = << 1, 5, 15, 60, 360, 1440 >>[k] ]_vars

\* The last retry of the budget is scheduled: retry count MaxRetries, six hours.
LastRetryScheduled ==
  \E id \in Ids :
    /\ rows[id].status = RequestStatusRetrying
    /\ rows[id].retryCount = MaxRetries
    /\ rows[id].nextRetryAt = 360

\* -------------------------------------------------------------- contingency
\* C28: when the primary endpoint answers a cStat in 500-599 for a request not
\* yet in contingency, the delivery stores InContingency = true with SVC-RS for
\* an emitter of RS and SVC-AN otherwise, and runs the pipeline once more, in the
\* same delivery, against that contingency endpoint with tpEmis 7 or 6; when that
\* run reaches the endpoint two requests were sent, and when it is authorized
\* the retry count is as it was.
ServerErrorSwitchesToContingency ==
  [][ \A w \in Workers, o2 \in Outcomes :
        /\ Emit(w, [kind |-> "response", cstat |-> 503, nProt |-> FALSE], o2)
        /\ ~h[w].req.inContingency
        => LET stored == rows'[h[w].id]
               svc == IF stored.uf = "RS" THEN "SVC-RS" ELSE "SVC-AN" IN
           /\ stored.inContingency
           /\ stored.contingencyType = svc
           /\ o2.kind \in {"response", "transport"} =>
                h'[w].sent = << [endpoint |-> stored.uf, tpEmis |-> 1],
                                [endpoint |-> svc,
                                 tpEmis |-> IF stored.uf = "RS" THEN 7 ELSE 6] >>
           /\ Len(h'[w].sent) <= 2
           /\ determineStatus(o2.cstat) = "authorized" =>
                stored.retryCount = h[w].req.retryCount
           /\ stored.retryCount <= h[w].req.retryCount + 1 ]_vars

\* A request of an emitter of RS was authorized by SVC-RS after the primary
\* endpoint's server error, its retry count untouched.
AuthorizedThroughSVCRS ==
  \E w \in Workers :
    /\ h[w].pc = "saved"
    /\ h[w].sent = << [endpoint |-> "RS", tpEmis |-> 1],
                      [endpoint |-> "SVC-RS", tpEmis |-> 7] >>
    /\ rows[h[w].id].status = RequestStatusAuthorized
    /\ rows[h[w].id].inContingency
    /\ rows[h[w].id].retryCount = 0

\* C29: when the authority answers a cStat of the unavailable bucket (503) for a
\* request whose InContingency is already true, also on a later delivery of the
\* request, the delivery stores the request as retrying and performs no further
\* contingency switch: no second run of the pipeline.
NoSecondContingencySwitch ==
  [][ \A w \in Workers, o2 \in Outcomes :
        /\ Emit(w, [kind |-> "response", cstat |-> 503, nProt |-> FALSE], o2)
        /\ h[w].req.inContingency
        /\ CanRetry(h[w].req, MaxRetries, h[w].id \in aged)
        => /\ rows'[h[w].id].status = RequestStatusRetrying
           /\ Len(h'[w].sent) = 1 ]_vars

\* C30: when the authority answers cStat 691 (692, 693) for a request within its
\* retry budget, the delivery stores the request as retrying with one more
\* retry, as for a transport failure, and starts no contingency run.
ContingencySystemErrorIsRetried ==
  [][ \A w \in Workers, o2 \in Outcomes :
        /\ Emit(w, [kind |-> "response", cstat |-> 691, nProt |-> FALSE], o2)
        /\ CanRetry(h[w].req, MaxRetries, h[w].id \in aged)
        => /\ rows'[h[w].id].status = RequestStatusRetrying
           /\ rows'[h[w].id].retryCount = h[w].req.retryCount + 1
           /\ Len(h'[w].sent) = 1 ]_vars

UploadFailureStillAuthorized ==
  [][ \A w \in Workers :
        /\ Emit(w, [kind |-> "response", cstat |-> 100, nProt |-> TRUE, upload |-> FALSE],
                   [kind |-> "response", cstat |-> 100, nProt |-> TRUE, upload |-> FALSE])
             => /\ rows'[h[w].id].status = RequestStatusAuthorized
                /\ rows'[h[w].id].urls = "fallback"
        /\ Track(w) /\ h[w].req.urls = "fallback"
             => /\ h[w].req.status = RequestStatusAuthorized
                /\ queue' = queue
                /\ redelivered' = redelivered ]_vars

\* The delivery of a request whose documents could not be stored has ended:
\* the request is authorized with the fallback URLs and its event is recorded.
AuthorizedWithFallbackURLs ==
  \E id \in Ids :
    /\ rows[id].status = RequestStatusAuthorized
    /\ rows[id].urls = "fallback"
    /\ \E k \in EventsOf(id) : events[k].statusTo = RequestStatusAuthorized
    /\ \A w \in Workers : h[w].pc = "idle"

\* ---------------------------------------------------------------- shutdown
\* C33: a worker that is stopping with no job in flight (its handler idle, its
\* scheduler idle or returned) does not end through Stop's deadline: Stop
\* returns nil and the process exits with status 0, not through os.Exit(1).
IdleStopExitsCleanly ==
  [][ \A w \in Workers :
        /\ proc[w] = "stopping"
        /\ h[w].pc = "idle"
        /\ sched[w].pc \in {"idle", "returned"}
        => ~StopTimeout(w) ]_vars

\* ------------------------------------------------------- stranded processing
\* A request stored as processing that nothing works on: no message for it is
\* on the queue, no handler holds it and no scheduler has it in its batch.
Stranded(id) ==
  /\ id \in Ids
  /\ rows[id].status = RequestStatusProcessing
  /\ \A m \in BagToSet(queue) : m.key # rows[id].key
  /\ \A w \in Workers : h[w].pc # "idle" => h[w].id # id
  /\ \A w \in Workers : id \notin DOMAIN sched[w].batch

\* C34: when the scheduler has moved a request to processing and its PublishEmit
\* fails, the request is eventually re-published: a request left in processing
\* with nothing working on it does not stay so forever.
StrandedProcessingIsRepublished ==
  \A id \in 1..(2 * NumCallers) : Stranded(id) ~> ~Stranded(id)

\* ------------------------------------------------------- one document each
\* The runs of handleMessage on the request that ended with an authorized
\* document, as the events they recorded.
AuthorizedEvents(id) ==
  { k \in EventsOf(id) : events[k].statusTo = RequestStatusAuthorized }

\* C35: for each request at most one document is ever authorized, whatever the
\* redeliveries, retries and concurrent workers: at most one run of the handler
\* on the request ends with an authorization.
AtMostOneAuthorization ==
  \A id \in Ids : Cardinality(AuthorizedEvents(id)) <= 1

\* ------------------------------------------------------------- redelivery
\* C36: every message delivered from nfce.emit is eventually acknowledged or
\* discarded, also one whose request_id matches no row: a message the consumers
\* cannot use does not stay on the queue forever.
UnusableMessageLeavesQueue ==
  \A m \in PoisonMessages : BagIn(m, queue) ~> ~BagIn(m, queue)

\* ------------------------------------------------------------ retry timing
\* C37: after a retry was scheduled the request is not submitted to the
\* authority again before next_retry_at, on any path: no run of the handler
\* sends an authorization request while the stored request is in retrying with
\* a next_retry_at that has not passed.
NoSubmissionBeforeNextRetryAt ==
  [][ \A w \in Workers :
        /\ HandlerWrites(w)
        /\ Len(h'[w].sent) > 0
        /\ rows[h[w].id].status = RequestStatusRetrying
        /\ rows[h[w].id].nextRetryAt # Nil
        => h[w].id \in due ]_vars

\* ------------------------------------------------- contingency of a document
\* C38: an authorized request has InContingency = true exactly when the
\* submission that was authorized went to a contingency endpoint (SVC-AN or
\* SVC-RS) with tpEmis 6 or 7: whenever a handler stores an authorization, the
\* flag it stores tells how the last request it sent was issued.
InContingencyTellsTheAuthorizedSubmission ==
  [][ \A w \in Workers :
        /\ HandlerWrites(w)
        /\ rows'[h[w].id].status = RequestStatusAuthorized
        /\ Len(h'[w].sent) > 0
        => LET last == h'[w].sent[Len(h'[w].sent)] IN
           rows'[h[w].id].inContingency
             <=> /\ last.endpoint \in {"SVC-AN", "SVC-RS"}
                 /\ last.tpEmis \in {6, 7} ]_vars

\* ---------------------------------------------------------- next_retry_at
\* C39: in every persisted state of a request, next_retry_at is non-null exactly
\* when the status is retrying.
NextRetryAtIffRetrying ==
  \A id \in Ids :
    rows[id].nextRetryAt # Nil <=> rows[id].status = RequestStatusRetrying

====
